---- MODULE Spec2Model ----
(***************************************************************************)
(* Two demonstration notebooks, each run by its own Jupyter kernel:        *)
(*   cookbook/oracleai_demo.ipynb          (cells 4..41)                   *)
(*   docs/.../text_embedding/spacy_embedding.ipynb  (cells 101..111, the   *)
(*   notebook's cell index plus 100)                                       *)
(* A kernel is a state machine: its namespace (ns, bound) persists between *)
(* cells, a cell runs statement by statement, and every call into a        *)
(* library or the database is issued, is outstanding, and then returns or  *)
(* raises.  The user runs the cells top to bottom; a run stops at the      *)
(* first cell that raises or after the last cell, and the user may then    *)
(* start a new run at any cell (a jump), the namespace being kept.         *)
(***************************************************************************)
EXTENDS Integers, Sequences, FiniteSets, TLC

\* ---------------------------------------------------------------- bounds
\* Runs the user starts at a cell of their choice after a run has stopped.
MaxJumps == 2
\* Most chunks the text splitter returns for one document.
MaxChunks == 2

\* Calls that raise for a reason outside the database state (network,
\* resources) in one behaviour.
MaxFaults == 1

\* ------------------------------------------------------- notebook layout
\* The store cell placed above the cell that builds the chunks.
OracleCells_store_first ==
  <<4, 7, 9, 12, 14, 16, 19, 21, 23, 26, 28, 31, 35, 33, 38, 41>>

\* The code cells of each notebook, in notebook order.
OracleCells == <<4, 7, 9, 12, 14, 16, 19, 21, 23, 26, 28, 31, 33, 35, 38, 41>>
SpacyCells == <<101, 103, 105, 107, 109, 111>>

CellsOf(n) == IF n = "oracle" THEN OracleCells ELSE SpacyCells

Range(s) == {s[i] : i \in 1..Len(s)}

IndexOf(s, c) == CHOOSE i \in 1..Len(s) : s[i] = c

\* The code cell that follows c in notebook n (0 after the last one).
NextCell(n, c) ==
  LET s == CellsOf(n)
      i == IndexOf(s, c)
  IN  IF i < Len(s) THEN s[i + 1] ELSE 0

\* --------------------------------------------------------------- python
Digit(d) ==
  CASE d = 0 -> "0" [] d = 1 -> "1" [] d = 2 -> "2" [] d = 3 -> "3"
    [] d = 4 -> "4" [] d = 5 -> "5" [] d = 6 -> "6" [] d = 7 -> "7"
    [] d = 8 -> "8" [] d = 9 -> "9"

\* str(n) of a non-negative int: its decimal digits.
RECURSIVE ToStr(_)
ToStr(n) == IF n < 10 THEN Digit(n) ELSE ToStr(n \div 10) \o Digit(n % 10)

\* dict.copy() followed by d[k] = v.
DictSet(d, k, v) == [x \in DOMAIN d \cup {k} |-> IF x = k THEN v ELSE d[x]]

\* ------------------------------------------------ the demo table's rows
\* rows_to_insert: the ids of the three sample rows.
rows_to_insert == <<1, 2, 3>>

\* ------------------------------------- library behaviour (not in src/)
\* The '_oid' the loader gives the document of row r.
Oid(r) == CASE r = 1 -> "A" [] r = 2 -> "A$1" [] OTHER -> "A"

\* OracleDocLoader.load(): one Document per visible row; the page content is
\* the row's data (named by the row id), the metadata names the row.
LoaderDoc(r) ==
  [page_content |-> r, metadata |-> ("_oid" :> Oid(r) @@ "_rowid" :> ToStr(r))]

LoaderLoad(visible) == [i \in 1..Len(visible) |-> LoaderDoc(visible[i])]

\* OracleSummary.get_summary(text): a list holding the summary.
GetSummary(text) == << <<"summary", text>> >>

\* OracleTextSplitter.split_text(text): a deterministic splitter; the number
\* of chunks depends on the text alone (none, one or several, at most
\* MaxChunks), and chunk k of text t is <<t, k>>.
NChunks(text) == text % (MaxChunks + 1)

SplitText(text) == [k \in 1..NChunks(text) |-> <<text, k>>]

\* OracleEmbeddings.embed_query(text)
EmbedQuery(text) == <<"vec", text>>

\* SpacyEmbeddings.embed_query / embed_documents
SpacyEmbedQuery(text) == <<"spacy", text>>

SpacyEmbedDocuments(ts) == [i \in 1..Len(ts) |-> SpacyEmbedQuery(ts[i])]

\* The stored documents a search filter selects: a document passes when, for
\* every key of the filter, its metadata value is among the listed values.
FilterSelect(store, flt) ==
  {i \in 1..Len(store) :
     \A key \in DOMAIN flt :
        /\ key \in DOMAIN store[i].metadata
        /\ store[i].metadata[key] \in flt[key]}

\* ----------------------------------------------------------------- state
VARIABLES
  nb,        \* the notebook this kernel runs: "oracle" or "spacy"
  ns,        \* the kernel namespace: the value of each global name
  bound,     \* the names that are bound (imports included)
  status,    \* "fresh", "busy" (a cell is running), "ok", "error"
  cell,      \* the cell that is running or ran last (0: none yet)
  pc,        \* the position inside the running cell
  inflight,  \* the external calls issued and not yet returned
  err,       \* why the last cell raised ("none" if it did not)
  db,        \* the database
  out,       \* what cells 109 and 111 (spaCy notebook) printed
  streak,    \* the cell at which the current run started
  ran,       \* the cells that ran to their end in the current run
  jumps,     \* runs started at a cell of the user's choice so far
  faults     \* calls that raised for a reason outside the database state so far

vars ==
  <<nb, ns, bound, status, cell, pc, inflight, err, db, out, streak, ran, jumps, faults>>

NoArg == "<no argument>"

Idle == [at |-> "idle", i |-> 0, j |-> 0, chunks |-> <<>>, with |-> 0]

InitNs ==
  [connection |-> 0, loader |-> 0, docs |-> <<>>, proxy |-> "",
   summ |-> 0, summary |-> 0, list_summary |-> <<>>, splitter |-> 0,
   list_chunks |-> <<>>, embedder |-> 0, embeddings |-> <<>>,
   chunks_with_mdata |-> <<>>, vectorstore |-> 0,
   texts |-> <<>>, query_embedding |-> 0]

InitDb ==
  [user |-> FALSE, tab |-> FALSE, rows |-> <<>>, pending |-> <<>>,
   pendConn |-> 0, models |-> {}, cred |-> FALSE,
   vtab |-> FALSE, store |-> <<>>, idx |-> FALSE,
   open |-> {}, nconn |-> 0]

Init ==
  /\ nb \in {"oracle", "spacy"}
  /\ ns = InitNs
  /\ bound = {}
  /\ status = "fresh"
  /\ cell = 0
  /\ pc = Idle
  /\ inflight = {}
  /\ err = "none"
  /\ db = InitDb
  /\ out = [c \in {109, 111} |-> <<>>]
  /\ streak = 0
  /\ ran = {}
  /\ faults = 0
  /\ jumps = 0

\* ------------------------------------------------------------- database
MkCall(c, op, conn, obj, arg) ==
  [cell |-> c, op |-> op, conn |-> conn, obj |-> obj, arg |-> arg]

SearchOps ==
  {"similarity_search", "similarity_search_with_score",
   "max_marginal_relevance_search"}

\* Operations that need no database connection.
LocalOps ==
  {"connect_sys", "connect", "pip_install", "SpacyEmbeddings",
   "embed_documents", "spacy_embed_query"}

\* What an embedder needs from the database before it can embed.
EmbedderCauses(e, d) ==
  (IF e.conn \in d.open THEN {} ELSE {"closed"})
  \cup (IF e.params.provider = "database"
        THEN (IF e.params.model \in d.models THEN {} ELSE {"no_model"})
        ELSE (IF d.cred THEN {} ELSE {"no_cred"}))

\* The reasons for which call r cannot succeed in database state d.
Causes(r, d) ==
  (IF r.op \in LocalOps \/ r.conn \in d.open THEN {} ELSE {"closed"})
  \cup
  (CASE r.op = "connect" -> IF d.user THEN {} ELSE {"no_user"}
     [] r.op = "execute_setup" ->
          IF d.open \ {r.conn} = {} THEN {} ELSE {"user_connected"}
     [] r.op = "create" -> IF d.tab THEN {"exists"} ELSE {}
     [] r.op \in {"insert", "load"} -> IF d.tab THEN {} ELSE {"no_table"}
     [] r.op = "get_summary" ->
          IF r.obj.params.provider = "database" \/ d.cred THEN {} ELSE {"no_cred"}
     [] r.op = "embed_query" -> EmbedderCauses(r.obj, d)
     [] r.op = "from_documents" -> EmbedderCauses(r.obj, d)
     [] r.op = "create_index" -> IF d.vtab THEN {} ELSE {"no_table"}
     [] r.op \in SearchOps ->
          EmbedderCauses(r.obj, d) \cup (IF d.vtab THEN {} ELSE {"no_table"})
     [] OTHER -> {})

\* Why call r raises, when it does: for a reason the database state gives,
\* or else for one outside the model (network, resources): "transient".
FailCauses(r, d) == IF Causes(r, d) = {} THEN {"transient"} ELSE Causes(r, d)

\* oracledb.connect: a new session.
DbConnect(d) == [d EXCEPT !.nconn = @ + 1, !.open = @ \cup {d.nconn + 1}]

\* Connection.__exit__ / close
DbClose(d, c) == [d EXCEPT !.open = @ \ {c}]

\* 'drop user if exists testuser cascade', 'create user testuser ...'
DbSetupUser(d) ==
  [d EXCEPT !.user = TRUE, !.tab = FALSE, !.rows = <<>>, !.pending = <<>>,
            !.pendConn = 0, !.models = {}, !.cred = FALSE, !.vtab = FALSE,
            !.store = <<>>, !.idx = FALSE]

\* 'drop table if exists demo_tab'
DbDropTable(d) ==
  [d EXCEPT !.tab = FALSE, !.rows = <<>>, !.pending = <<>>, !.pendConn = 0]

\* 'create table demo_tab (id number, data clob)'
DbCreateTable(d) == [d EXCEPT !.tab = TRUE]

\* 'insert into demo_tab values (:1, :2)' for each of rs, uncommitted.
DbInsert(d, c, rs) == [d EXCEPT !.pending = @ \o rs, !.pendConn = c]

\* Connection.commit()
DbCommit(d, c) ==
  IF d.pendConn = c
  THEN [d EXCEPT !.rows = @ \o d.pending, !.pending = <<>>, !.pendConn = 0]
  ELSE d

\* The rows a session sees: the committed ones and its own uncommitted ones.
Visible(d, c) == d.rows \o (IF d.pendConn = c THEN d.pending ELSE <<>>)

\* OracleEmbeddings.load_onnx_model: drops the model of that name, loads it.
DbLoadModel(d, name) == [d EXCEPT !.models = @ \cup {name}]

\* dbms_vector_chain.create_credential
DbCreateCredential(d) == [d EXCEPT !.cred = TRUE]

\* OracleVS.from_documents: (re)creates the table and stores the documents.
DbStore(d, documents) ==
  [d EXCEPT !.vtab = TRUE, !.store = documents, !.idx = FALSE]

\* oraclevs.create_index
DbCreateIndex(d) == [d EXCEPT !.idx = TRUE]

\* The database states a raising call may leave behind.
FailEffects(r, cause, d) ==
  IF cause # "transient" THEN {d}
  ELSE CASE r.op = "insert" ->
              {DbInsert(d, r.conn, SubSeq(r.arg, 1, n)) : n \in 1..(Len(r.arg) - 1)}
              \cup {d}
         [] r.op = "from_documents" -> {d, DbStore(d, <<>>)}
         [] OTHER -> {d}

\* ---------------------------------------------------------- the kernel
Same == UNCHANGED <<nb, cell, streak, jumps>>

\* c is the cell the notebook's order has next.
InOrder(c) ==
  \/ status = "fresh" /\ c = CellsOf(nb)[1]
  \/ status = "ok" /\ c = NextCell(nb, cell)

\* The run has stopped: nothing ran yet, a cell raised, or the last cell ended.
Halted ==
  \/ status \in {"fresh", "error"}
  \/ status = "ok" /\ NextCell(nb, cell) = 0

\* A kernel that starts a cell while another cell is still running.
Begin_while_busy(c) ==
  /\ c \in Range(CellsOf(nb))
  /\ InOrder(c) \/ (status = "busy" /\ c = NextCell(nb, cell))
               \/ (Halted /\ jumps < MaxJumps)
  /\ cell' = c
  /\ streak' = IF InOrder(c) /\ status = "ok" THEN streak ELSE c
  /\ jumps' = IF InOrder(c) \/ status = "busy" THEN jumps ELSE jumps + 1
  /\ UNCHANGED <<nb, faults>>

\* The user starts cell c: the kernel runs one cell at a time.  A run goes
\* down the notebook cell by cell; once it has stopped, the user may start a
\* new run at any cell (a jump).
Begin(c) ==
  /\ status # "busy"
  /\ c \in Range(CellsOf(nb))
  /\ InOrder(c) \/ (Halted /\ jumps < MaxJumps)
  /\ cell' = c
  /\ streak' = IF InOrder(c) /\ status = "ok" THEN streak ELSE c
  /\ jumps' = IF InOrder(c) THEN jumps ELSE jumps + 1
  /\ UNCHANGED <<nb, faults>>

\* The cells that ran to their end in the run the step belongs to.
RunSoFar ==
  IF status = "busy" \/ (status = "ok" /\ InOrder(cell')) THEN ran ELSE {}

\* The running cell makes call r and waits for it.
Issue(rest, r, p) ==
  /\ status' = "busy"
  /\ ran' = RunSoFar
  /\ inflight' = rest \cup {r}
  /\ pc' = p
  /\ err' = "none"

\* The running cell has run its last statement.
Done(rest) ==
  /\ status' = "ok"
  /\ ran' = RunSoFar \cup {cell'}
  /\ inflight' = rest
  /\ pc' = Idle
  /\ err' = "none"

\* An exception leaves the running cell.
Raise(rest, cause) ==
  /\ status' = "error"
  /\ ran' = RunSoFar
  /\ inflight' = rest
  /\ pc' = Idle
  /\ err' = cause

\* Call r of cell c, operation op, can return normally.
Ret(r, c, op) ==
  /\ r \in inflight
  /\ r.cell = c
  /\ r.op = op
  /\ Causes(r, db) = {}
  /\ faults' = faults

At(label) == [pc EXCEPT !.at = label]

\* The raising call caught and left outstanding for another attempt.
Fail_retries ==
  \E r \in inflight :
    \E cause \in FailCauses(r, db) :
      /\ Same
      /\ status' = "busy"
      /\ err' = cause
      /\ UNCHANGED <<ns, bound, out, db, ran, inflight, pc, faults>>

\* An outstanding call raises: nothing catches it, the cell ends; a `with`
\* block the cell is in closes its connection on the way out.  A call the
\* database state allows to succeed raises at most MaxFaults times in all.
Fail ==
  \E r \in inflight :
    \E cause \in FailCauses(r, db) :
      \E d \in FailEffects(r, cause, db) :
        /\ Same
        /\ cause = "transient" => faults < MaxFaults
        /\ faults' = IF cause = "transient" THEN faults + 1 ELSE faults
        /\ db' = IF pc.with # 0 THEN DbClose(d, pc.with) ELSE d
        /\ Raise(inflight \ {r}, cause)
        /\ UNCHANGED <<ns, bound, out>>

\* ------------------------------------------------ oracleai_demo.ipynb
loader_params == [owner |-> "testuser", tablename |-> "demo_tab", colname |-> "data"]

summary_params ==
  [provider |-> "database", glevel |-> "S", numParagraphs |-> 1, language |-> "english"]

splitter_params == [normalize |-> "all"]

embedder_params == [provider |-> "database", model |-> "demo_model"]

\* The ONNX file loaded under a name the embedder does not ask for.
onnx_args_other_name ==
  [onnx_dir |-> "DEMO_PY_DIR", onnx_file |-> "tinybert.onnx", model_name |-> "tinybert"]

\* The arguments of OracleEmbeddings.load_onnx_model, the same in cells 12 and 33.
onnx_args == [onnx_dir |-> "DEMO_PY_DIR", onnx_file |-> "tinybert.onnx", model_name |-> "demo_model"]

\* Cell 4: create the demo user, inside `with oracledb.connect(...) as connection`.
Cell4 ==
  /\ nb = "oracle"
  /\ Begin(4)
  /\ bound' = bound \cup {"oracledb"}
  /\ Issue(inflight, MkCall(4, "connect_sys", 0, 0, "SYSTEM"), At("connect"))
  /\ UNCHANGED <<ns, db, out>>

Cell4_connect ==
  \E r \in inflight :
    /\ Same
    /\ Ret(r, 4, "connect_sys")
    /\ LET n == db.nconn + 1 IN
         /\ db' = DbConnect(db)
         /\ ns' = [ns EXCEPT !.connection = n]
         /\ bound' = bound \cup {"connection"}
         /\ Issue(inflight \ {r}, MkCall(4, "execute_setup", n, 0, 0),
                  [pc EXCEPT !.at = "execute", !.with = n])
    /\ UNCHANGED out

Cell4_execute ==
  \E r \in inflight :
    /\ Same
    /\ Ret(r, 4, "execute_setup")
    /\ db' = DbClose(DbSetupUser(db), pc.with)
    /\ Done(inflight \ {r})
    /\ UNCHANGED <<ns, bound, out>>

\* Cell 7: connection = oracledb.connect(...) as the demo user.
Cell7 ==
  /\ nb = "oracle"
  /\ Begin(7)
  /\ bound' = bound \cup {"oracledb"}
  /\ Issue(inflight, MkCall(7, "connect", 0, 0, "testuser"), At("connect"))
  /\ UNCHANGED <<ns, db, out>>

Cell7_connect ==
  \E r \in inflight :
    /\ Same
    /\ Ret(r, 7, "connect")
    /\ db' = DbConnect(db)
    /\ ns' = [ns EXCEPT !.connection = db.nconn + 1]
    /\ bound' = bound \cup {"connection"}
    /\ Done(inflight \ {r})
    /\ UNCHANGED out

\* Cell 9: drop, create and fill demo_tab, then commit.
Cell9 ==
  /\ nb = "oracle"
  /\ Begin(9)
  /\ IF "connection" \in bound
     THEN Issue(inflight, MkCall(9, "drop", ns.connection, 0, 0), At("drop"))
     ELSE Raise(inflight, "NameError")
  /\ UNCHANGED <<ns, bound, db, out>>

Cell9_drop ==
  \E r \in inflight :
    /\ Same
    /\ Ret(r, 9, "drop")
    /\ db' = DbDropTable(db)
    /\ Issue(inflight \ {r}, MkCall(9, "create", r.conn, 0, 0), At("create"))
    /\ UNCHANGED <<ns, bound, out>>

Cell9_create ==
  \E r \in inflight :
    /\ Same
    /\ Ret(r, 9, "create")
    /\ db' = DbCreateTable(db)
    /\ Issue(inflight \ {r}, MkCall(9, "insert", r.conn, 0, rows_to_insert), At("insert"))
    /\ UNCHANGED <<ns, bound, out>>

Cell9_insert ==
  \E r \in inflight :
    /\ Same
    /\ Ret(r, 9, "insert")
    /\ db' = DbInsert(db, r.conn, r.arg)
    /\ Issue(inflight \ {r}, MkCall(9, "commit", ns.connection, 0, 0), At("commit"))
    /\ UNCHANGED <<ns, bound, out>>

\* The cell ending after the insert, with no connection.commit().
Cell9_commit_missing ==
  \E r \in inflight :
    /\ Same
    /\ Ret(r, 9, "commit")
    /\ db' = db
    /\ Done(inflight \ {r})
    /\ UNCHANGED <<ns, bound, out>>

\* connection.commit()
Cell9_commit ==
  \E r \in inflight :
    /\ Same
    /\ Ret(r, 9, "commit")
    /\ db' = DbCommit(db, r.conn)
    /\ Done(inflight \ {r})
    /\ UNCHANGED <<ns, bound, out>>

\* Cell 12: OracleEmbeddings.load_onnx_model(connection, ...).
Cell12 ==
  /\ nb = "oracle"
  /\ Begin(12)
  /\ bound' = bound \cup {"OracleEmbeddings"}
  /\ IF "connection" \in bound
     THEN Issue(inflight, MkCall(12, "load_onnx", ns.connection, 0, onnx_args), At("load_onnx"))
     ELSE Raise(inflight, "NameError")
  /\ UNCHANGED <<ns, db, out>>

Cell12_load_onnx ==
  \E r \in inflight :
    /\ Same
    /\ Ret(r, 12, "load_onnx")
    /\ db' = DbLoadModel(db, r.arg.model_name)
    /\ Done(inflight \ {r})
    /\ UNCHANGED <<ns, bound, out>>

\* Cell 14: create the third-party credentials.
Cell14 ==
  /\ nb = "oracle"
  /\ Begin(14)
  /\ IF "connection" \in bound
     THEN Issue(inflight, MkCall(14, "execute_cred", ns.connection, 0, 0), At("execute"))
     ELSE Raise(inflight, "NameError")
  /\ UNCHANGED <<ns, bound, db, out>>

Cell14_execute ==
  \E r \in inflight :
    /\ Same
    /\ Ret(r, 14, "execute_cred")
    /\ db' = DbCreateCredential(db)
    /\ Done(inflight \ {r})
    /\ UNCHANGED <<ns, bound, out>>

\* Cell 16: loader = OracleDocLoader(...); docs = loader.load().
Cell16 ==
  /\ nb = "oracle"
  /\ Begin(16)
  /\ IF "connection" \in bound
     THEN LET l == [conn |-> ns.connection, params |-> loader_params] IN
            /\ ns' = [ns EXCEPT !.loader = l]
            /\ bound' = bound \cup {"OracleDocLoader", "Document", "loader"}
            /\ Issue(inflight, MkCall(16, "load", l.conn, l, 0), At("load"))
     ELSE /\ ns' = ns
          /\ bound' = bound \cup {"OracleDocLoader", "Document"}
          /\ Raise(inflight, "NameError")
  /\ UNCHANGED <<db, out>>

Cell16_load ==
  \E r \in inflight :
    /\ Same
    /\ Ret(r, 16, "load")
    /\ ns' = [ns EXCEPT !.docs = LoaderLoad(Visible(db, r.conn))]
    /\ bound' = bound \cup {"docs"}
    /\ Done(inflight \ {r})
    /\ UNCHANGED <<db, out>>

\* Cells 19 and 26: proxy = "".
CellProxy(c) ==
  /\ nb = "oracle"
  /\ Begin(c)
  /\ ns' = [ns EXCEPT !.proxy = ""]
  /\ bound' = bound \cup {"proxy"}
  /\ Done(inflight)
  /\ UNCHANGED <<db, out>>

Cell19 == CellProxy(19)

Cell26 == CellProxy(26)

\* Cell 21: summ = OracleSummary(...); one get_summary per document.
Cell21_call(i) ==
  MkCall(21, "get_summary", ns'.summ.conn, ns'.summ, ns'.docs[i].page_content)

Cell21 ==
  /\ nb = "oracle"
  /\ Begin(21)
  /\ LET a1 == {"connection", "proxy"} \subseteq bound
         a2 == a1 /\ "docs" \in bound
         s  == [conn |-> ns.connection, params |-> summary_params, proxy |-> ns.proxy]
     IN  /\ ns' = IF a1 THEN [ns EXCEPT !.summ = s, !.list_summary = <<>>] ELSE ns
         /\ bound' = bound \cup {"OracleSummary", "Document"}
                           \cup (IF a1 THEN {"summ", "list_summary"} ELSE {})
         /\ IF ~a2 THEN Raise(inflight, "NameError")
            ELSE IF Len(ns.docs) = 0 THEN Done(inflight)
            ELSE Issue(inflight, Cell21_call(1), [pc EXCEPT !.at = "get_summary", !.i = 1])
  /\ UNCHANGED <<db, out>>

\* The summary assigned to list_summary instead of appended to it.
Cell21_get_summary_assigns ==
  \E r \in inflight :
    /\ Same
    /\ Ret(r, 21, "get_summary")
    /\ LET summary == GetSummary(r.arg) IN
         ns' = [ns EXCEPT !.summary = summary, !.list_summary = <<summary>>]
    /\ bound' = bound \cup {"summary"}
    /\ IF pc.i < Len(ns.docs)
       THEN Issue(inflight \ {r}, Cell21_call(pc.i + 1), [pc EXCEPT !.i = @ + 1])
       ELSE Done(inflight \ {r})
    /\ UNCHANGED <<db, out>>

\* summary = summ.get_summary(doc.page_content); list_summary.append(summary)
Cell21_get_summary ==
  \E r \in inflight :
    /\ Same
    /\ Ret(r, 21, "get_summary")
    /\ LET summary == GetSummary(r.arg) IN
         ns' = [ns EXCEPT !.summary = summary, !.list_summary = Append(@, summary)]
    /\ bound' = bound \cup {"summary"}
    /\ IF pc.i < Len(ns.docs)
       THEN Issue(inflight \ {r}, Cell21_call(pc.i + 1), [pc EXCEPT !.i = @ + 1])
       ELSE Done(inflight \ {r})
    /\ UNCHANGED <<db, out>>

\* Cell 23: splitter = OracleTextSplitter(...); one split_text per document.
Cell23_call(i) ==
  MkCall(23, "split_text", ns'.splitter.conn, ns'.splitter, ns'.docs[i].page_content)

Cell23 ==
  /\ nb = "oracle"
  /\ Begin(23)
  /\ LET a1 == "connection" \in bound
         a2 == a1 /\ "docs" \in bound
         s  == [conn |-> ns.connection, params |-> splitter_params]
     IN  /\ ns' = IF a1 THEN [ns EXCEPT !.splitter = s, !.list_chunks = <<>>] ELSE ns
         /\ bound' = bound \cup {"OracleTextSplitter", "Document"}
                           \cup (IF a1 THEN {"splitter", "list_chunks"} ELSE {})
         /\ IF ~a2 THEN Raise(inflight, "NameError")
            ELSE IF Len(ns.docs) = 0 THEN Done(inflight)
            ELSE Issue(inflight, Cell23_call(1), [pc EXCEPT !.at = "split_text", !.i = 1])
  /\ UNCHANGED <<db, out>>

Cell23_split_text ==
  \E r \in inflight :
    /\ Same
    /\ Ret(r, 23, "split_text")
    /\ LET chunks == SplitText(r.arg) IN
         ns' = [ns EXCEPT !.list_chunks = @ \o chunks]
    /\ IF pc.i < Len(ns.docs)
       THEN Issue(inflight \ {r}, Cell23_call(pc.i + 1), [pc EXCEPT !.i = @ + 1])
       ELSE Done(inflight \ {r})
    /\ UNCHANGED <<bound, db, out>>

\* Cell 28: embedder = OracleEmbeddings(...); split every document again and
\* embed every chunk.
Cell28_split(i) ==
  MkCall(28, "split_text", ns'.splitter.conn, ns'.splitter, ns'.docs[i].page_content)

Cell28_embed(chunk) ==
  MkCall(28, "embed_query", ns'.embedder.conn, ns'.embedder, chunk)

\* The outer loop of cell 28 moves on from document i.
Cell28_next(rest, i) ==
  IF i < Len(ns.docs)
  THEN Issue(rest, Cell28_split(i + 1),
             [pc EXCEPT !.at = "split_text", !.i = i + 1, !.j = 0, !.chunks = <<>>])
  ELSE Done(rest)

Cell28 ==
  /\ nb = "oracle"
  /\ Begin(28)
  /\ LET a1 == {"connection", "proxy"} \subseteq bound
         a2 == a1 /\ "docs" \in bound
         a3 == a2 /\ (Len(ns.docs) = 0 \/ "splitter" \in bound)
         e  == [conn |-> ns.connection, params |-> embedder_params, proxy |-> ns.proxy]
     IN  /\ ns' = IF a1 THEN [ns EXCEPT !.embedder = e, !.embeddings = <<>>] ELSE ns
         /\ bound' = bound \cup {"OracleEmbeddings", "Document"}
                           \cup (IF a1 THEN {"embedder", "embeddings"} ELSE {})
         /\ IF ~a3 THEN Raise(inflight, "NameError")
            ELSE Cell28_next(inflight, 0)
  /\ UNCHANGED <<db, out>>

Cell28_split_text ==
  \E r \in inflight :
    /\ Same
    /\ Ret(r, 28, "split_text")
    /\ ns' = ns
    /\ LET chunks == SplitText(r.arg) IN
         IF Len(chunks) > 0
         THEN Issue(inflight \ {r}, Cell28_embed(chunks[1]),
                    [pc EXCEPT !.at = "embed_query", !.j = 1, !.chunks = chunks])
         ELSE Cell28_next(inflight \ {r}, pc.i)
    /\ UNCHANGED <<bound, db, out>>

Cell28_embed_query ==
  \E r \in inflight :
    /\ Same
    /\ Ret(r, 28, "embed_query")
    /\ ns' = [ns EXCEPT !.embeddings = Append(@, EmbedQuery(r.arg))]
    /\ IF pc.j < Len(pc.chunks)
       THEN Issue(inflight \ {r}, Cell28_embed(pc.chunks[pc.j + 1]), [pc EXCEPT !.j = @ + 1])
       ELSE Cell28_next(inflight \ {r}, pc.i)
    /\ UNCHANGED <<bound, db, out>>

\* Cell 31: the imports of the combined pipeline.
Cell31 ==
  /\ nb = "oracle"
  /\ Begin(31)
  /\ bound' = bound \cup {"sys", "oracledb", "OracleDocLoader", "OracleTextSplitter",
                          "OracleEmbeddings", "OracleSummary", "OracleVS", "Document"}
  /\ Done(inflight)
  /\ UNCHANGED <<ns, db, out>>

\* Cell 33: the combined pipeline, inside `with oracledb.connect(...) as connection`.
Cell33_summary(i) ==
  MkCall(33, "get_summary", ns'.summary.conn, ns'.summary, ns'.docs[i].page_content)

Cell33_split(i) ==
  MkCall(33, "split_text", ns'.splitter.conn, ns'.splitter, ns'.docs[i].page_content)

\* str() of a value that is a str already.
PyStr(x) == x

\* The chunk's id written over the loader's "_oid" instead of under "id".
ChunkDoc_rewrites_oid(doc, id, ic, chunk, summ) ==
  LET m0 == doc.metadata
      m1 == DictSet(m0, "_oid", m0["_oid"] \o "$" \o ToStr(id) \o "$" \o ToStr(ic))
      m2 == DictSet(m1, "document_id", ToStr(id))
      m3 == DictSet(m2, "document_summary", PyStr(summ[1]))
  IN  [page_content |-> PyStr(chunk), metadata |-> m3]

\* document_id taken from the chunk counter instead of the document counter.
ChunkDoc_chunk_position(doc, id, ic, chunk, summ) ==
  LET m0 == doc.metadata
      m1 == DictSet(m0, "id", m0["_oid"] \o "$" \o ToStr(id) \o "$" \o ToStr(ic))
      m2 == DictSet(m1, "document_id", ToStr(ic))
      m3 == DictSet(m2, "document_summary", PyStr(summ[1]))
  IN  [page_content |-> PyStr(chunk), metadata |-> m3]

\* The chunk's id built without the document counter.
ChunkDoc_id_without_document(doc, id, ic, chunk, summ) ==
  LET m0 == doc.metadata
      m1 == DictSet(m0, "id", m0["_oid"] \o "$" \o ToStr(ic))
      m2 == DictSet(m1, "document_id", ToStr(id))
      m3 == DictSet(m2, "document_summary", PyStr(summ[1]))
  IN  [page_content |-> PyStr(chunk), metadata |-> m3]

\* The Document the inner loop builds for chunk number ic of document number id.
ChunkDoc(doc, id, ic, chunk, summ) ==
  LET m0 == doc.metadata
      m1 == DictSet(m0, "id", m0["_oid"] \o "$" \o ToStr(id) \o "$" \o ToStr(ic))
      m2 == DictSet(m1, "document_id", ToStr(id))
      m3 == DictSet(m2, "document_summary", PyStr(summ[1]))
  IN  [page_content |-> PyStr(chunk), metadata |-> m3]

\* for ic, chunk in enumerate(chunks, start=1): ...
ChunkDocs(doc, id, chunks, summ) ==
  [ic \in 1..Len(chunks) |-> ChunkDoc(doc, id, ic, chunks[ic], summ)]

\* The inner loop writing to doc.metadata itself: every write lands in the
\* document's own dict, which all chunks of the document then hold.
InnerLoop_without_copy(doc, id, chunks, summ) ==
  LET n == Len(chunks)
      final == IF n = 0 THEN doc.metadata
               ELSE ChunkDoc(doc, id, n, chunks[n], summ).metadata
  IN  [doc    |-> [doc EXCEPT !.metadata = final],
       chunks |-> [ic \in 1..n |-> [page_content |-> PyStr(chunks[ic]), metadata |-> final]]]

\* One pass of the inner loop over the chunks of doc: the document as the
\* loop leaves it and the Documents it appends.  chunk_metadata is
\* doc.metadata.copy(), a dict of its own for every chunk, so the three
\* writes of the body reach neither doc.metadata nor another chunk's dict.
InnerLoop(doc, id, chunks, summ) ==
  [doc |-> doc, chunks |-> ChunkDocs(doc, id, chunks, summ)]

Cell33 ==
  /\ nb = "oracle"
  /\ Begin(33)
  /\ IF "oracledb" \in bound
     THEN Issue(inflight, MkCall(33, "connect", 0, 0, "testuser"), At("connect"))
     ELSE Raise(inflight, "NameError")
  /\ UNCHANGED <<ns, bound, db, out>>

Cell33_connect ==
  \E r \in inflight :
    /\ Same
    /\ Ret(r, 33, "connect")
    /\ LET n == db.nconn + 1 IN
         /\ ns' = [ns EXCEPT !.connection = n]
         /\ bound' = bound \cup {"connection"}
         /\ IF "OracleEmbeddings" \in bound
            THEN /\ db' = DbConnect(db)
                 /\ Issue(inflight \ {r}, MkCall(33, "load_onnx", n, 0, onnx_args),
                          [pc EXCEPT !.at = "load_onnx", !.with = n])
            ELSE /\ db' = DbClose(DbConnect(db), n)
                 /\ Raise(inflight \ {r}, "NameError")
    /\ UNCHANGED out

Cell33_load_onnx ==
  \E r \in inflight :
    /\ Same
    /\ Ret(r, 33, "load_onnx")
    /\ LET c  == ns.connection
           b1 == "OracleDocLoader" \in bound
           b2 == b1 /\ "OracleSummary" \in bound
           b3 == b2 /\ "OracleTextSplitter" \in bound
           b4 == b3 /\ "docs" \in bound
           d  == DbLoadModel(db, r.arg.model_name)
       IN  /\ ns' = [ns EXCEPT
                      !.loader = IF b1 THEN [conn |-> c, params |-> loader_params] ELSE @,
                      !.summary = IF b2 THEN [conn |-> c, params |-> summary_params,
                                              proxy |-> NoArg] ELSE @,
                      !.splitter = IF b3 THEN [conn |-> c, params |-> splitter_params] ELSE @,
                      !.embedder = IF b3 THEN [conn |-> c, params |-> embedder_params,
                                               proxy |-> NoArg] ELSE @,
                      !.chunks_with_mdata = IF b3 THEN <<>> ELSE @]
           /\ bound' = bound \cup (IF b1 THEN {"loader"} ELSE {})
                             \cup (IF b2 THEN {"summary"} ELSE {})
                             \cup (IF b3 THEN {"splitter", "embedder", "chunks_with_mdata"}
                                   ELSE {})
           /\ IF ~b4
              THEN db' = DbClose(d, pc.with) /\ Raise(inflight \ {r}, "NameError")
              ELSE IF Len(ns.docs) = 0
              THEN db' = DbClose(d, pc.with) /\ Done(inflight \ {r})
              ELSE /\ db' = d
                   /\ Issue(inflight \ {r}, Cell33_summary(1),
                            [pc EXCEPT !.at = "get_summary", !.i = 1])
    /\ UNCHANGED out

Cell33_get_summary ==
  \E r \in inflight :
    /\ Same
    /\ Ret(r, 33, "get_summary")
    /\ ns' = [ns EXCEPT !.summ = GetSummary(r.arg)]
    /\ bound' = bound \cup {"summ"}
    /\ Issue(inflight \ {r}, Cell33_split(pc.i), At("split_text"))
    /\ UNCHANGED <<db, out>>

Cell33_split_text ==
  \E r \in inflight :
    /\ Same
    /\ Ret(r, 33, "split_text")
    /\ LET chunks == SplitText(r.arg)
           loop == InnerLoop(ns.docs[pc.i], pc.i, chunks, ns.summ)
       IN  ns' = [ns EXCEPT !.docs[pc.i] = loop.doc,
                            !.chunks_with_mdata = @ \o loop.chunks]
    /\ IF pc.i < Len(ns.docs)
       THEN /\ db' = db
            /\ Issue(inflight \ {r}, Cell33_summary(pc.i + 1),
                     [pc EXCEPT !.at = "get_summary", !.i = @ + 1])
       ELSE /\ db' = DbClose(db, pc.with)
            /\ Done(inflight \ {r})
    /\ UNCHANGED <<bound, out>>

\* Cell 35: vectorstore = OracleVS.from_documents(chunks_with_mdata, embedder,
\* client=connection, ...).
Cell35 ==
  /\ nb = "oracle"
  /\ Begin(35)
  /\ IF {"OracleVS", "chunks_with_mdata", "embedder", "connection"} \subseteq bound
     THEN Issue(inflight,
                MkCall(35, "from_documents", ns.connection, ns.embedder, ns.chunks_with_mdata),
                At("from_documents"))
     ELSE Raise(inflight, "NameError")
  /\ UNCHANGED <<ns, bound, db, out>>

Cell35_from_documents ==
  \E r \in inflight :
    /\ Same
    /\ Ret(r, 35, "from_documents")
    /\ db' = DbStore(db, r.arg)
    /\ ns' = [ns EXCEPT !.vectorstore =
                [client |-> r.conn, embedder |-> r.obj, table_name |-> "oravs",
                 distance_strategy |-> "DOT_PRODUCT"]]
    /\ bound' = bound \cup {"vectorstore"}
    /\ Done(inflight \ {r})
    /\ UNCHANGED out

\* Cell 38: oraclevs.create_index(connection, vectorstore, params=...).
Cell38 ==
  /\ nb = "oracle"
  /\ Begin(38)
  /\ IF {"OracleVS", "connection", "vectorstore"} \subseteq bound
     THEN Issue(inflight,
                MkCall(38, "create_index", ns.connection, ns.vectorstore,
                       [idx_name |-> "hnsw_oravs", idx_type |-> "HNSW"]),
                At("create_index"))
     ELSE Raise(inflight, "NameError")
  /\ UNCHANGED <<ns, bound, db, out>>

Cell38_create_index ==
  \E r \in inflight :
    /\ Same
    /\ Ret(r, 38, "create_index")
    /\ db' = DbCreateIndex(db)
    /\ Done(inflight \ {r})
    /\ UNCHANGED <<ns, bound, out>>

\* Cell 41: the six searches, in the order the cell makes them.
query == "What is Oracle AI Vector Store?"

filter == "document_id" :> {"1"}

NoFilter == <<>>

Searches ==
  << [op |-> "similarity_search", k |-> 1, filter |-> NoFilter],
     [op |-> "similarity_search", k |-> 1, filter |-> filter],
     [op |-> "similarity_search_with_score", k |-> 1, filter |-> NoFilter],
     [op |-> "similarity_search_with_score", k |-> 1, filter |-> filter],
     [op |-> "max_marginal_relevance_search", k |-> 1, filter |-> NoFilter],
     [op |-> "max_marginal_relevance_search", k |-> 1, filter |-> filter] >>

Cell41_call(n) ==
  MkCall(41, Searches[n].op, ns.vectorstore.client, ns.vectorstore.embedder,
         [query |-> query, k |-> Searches[n].k, filter |-> Searches[n].filter])

Cell41 ==
  /\ nb = "oracle"
  /\ Begin(41)
  /\ IF "vectorstore" \in bound
     THEN Issue(inflight, Cell41_call(1), [pc EXCEPT !.at = "search", !.i = 1])
     ELSE Raise(inflight, "NameError")
  /\ UNCHANGED <<ns, bound, db, out>>

Cell41_search ==
  \E r \in inflight :
    /\ Same
    /\ r.op \in SearchOps
    /\ Ret(r, 41, r.op)
    /\ IF pc.i < Len(Searches)
       THEN Issue(inflight \ {r}, Cell41_call(pc.i + 1), [pc EXCEPT !.i = @ + 1])
       ELSE Done(inflight \ {r})
    /\ UNCHANGED <<ns, bound, db, out>>

\* ---------------------------------------------- spacy_embedding.ipynb
\* Cell 1: %pip install --upgrade --quiet spacy
Cell101 ==
  /\ nb = "spacy"
  /\ Begin(101)
  /\ Issue(inflight, MkCall(101, "pip_install", 0, 0, "spacy"), At("pip"))
  /\ UNCHANGED <<ns, bound, db, out>>

Cell101_pip ==
  \E r \in inflight :
    /\ Same
    /\ Ret(r, 101, "pip_install")
    /\ Done(inflight \ {r})
    /\ UNCHANGED <<ns, bound, db, out>>

\* Cell 3: from ... import SpacyEmbeddings
Cell103 ==
  /\ nb = "spacy"
  /\ Begin(103)
  /\ bound' = bound \cup {"SpacyEmbeddings"}
  /\ Done(inflight)
  /\ UNCHANGED <<ns, db, out>>

\* Cell 5: embedder = SpacyEmbeddings(model_name="en_core_web_sm")
Cell105 ==
  /\ nb = "spacy"
  /\ Begin(105)
  /\ IF "SpacyEmbeddings" \in bound
     THEN Issue(inflight, MkCall(105, "SpacyEmbeddings", 0, 0, "en_core_web_sm"), At("init"))
     ELSE Raise(inflight, "NameError")
  /\ UNCHANGED <<ns, bound, db, out>>

Cell105_init ==
  \E r \in inflight :
    /\ Same
    /\ Ret(r, 105, "SpacyEmbeddings")
    /\ ns' = [ns EXCEPT !.embedder = [model_name |-> r.arg]]
    /\ bound' = bound \cup {"embedder"}
    /\ Done(inflight \ {r})
    /\ UNCHANGED <<db, out>>

\* Cell 7: texts = [...]
texts ==
  << "The quick brown fox jumps over the lazy dog.",
     "Pack my box with five dozen liquor jugs.",
     "How vexingly quick daft zebras jump!",
     "Bright vixens jump; dozy fowl quack." >>

Cell107 ==
  /\ nb = "spacy"
  /\ Begin(107)
  /\ ns' = [ns EXCEPT !.texts = texts]
  /\ bound' = bound \cup {"texts"}
  /\ Done(inflight)
  /\ UNCHANGED <<db, out>>

\* The print loop numbering its entries with the 0-based index i.
PrintEmbeddings_from_zero(embeddings) ==
  [p \in 1..Len(embeddings) |-> LET i == p - 1 IN <<i, embeddings[p]>>]

\* for i, embedding in enumerate(embeddings): print(f"... {i + 1}: {embedding}")
\* (i is the 0-based Python index of the entry at position i + 1).
PrintEmbeddings(embeddings) ==
  [p \in 1..Len(embeddings) |-> LET i == p - 1 IN <<i + 1, embeddings[p]>>]

\* Cell 9: embeddings = embedder.embed_documents(texts), then the print loop.
Cell109 ==
  /\ nb = "spacy"
  /\ Begin(109)
  /\ out' = [out EXCEPT ![109] = <<>>]
  /\ IF {"embedder", "texts"} \subseteq bound
     THEN Issue(inflight, MkCall(109, "embed_documents", 0, ns.embedder, ns.texts),
                At("embed_documents"))
     ELSE Raise(inflight, "NameError")
  /\ UNCHANGED <<ns, bound, db>>

Cell109_embed_documents ==
  \E r \in inflight :
    /\ Same
    /\ Ret(r, 109, "embed_documents")
    /\ ns' = [ns EXCEPT !.embeddings = SpacyEmbedDocuments(r.arg)]
    /\ bound' = bound \cup {"embeddings"}
    /\ out' = [out EXCEPT ![109] = PrintEmbeddings(ns'.embeddings)]
    /\ Done(inflight \ {r})
    /\ UNCHANGED db

\* Cell 11: query_embedding = embedder.embed_query(query)
spacy_query == "Quick foxes and lazy dogs."

Cell111 ==
  /\ nb = "spacy"
  /\ Begin(111)
  /\ out' = [out EXCEPT ![111] = <<>>]
  /\ IF "embedder" \in bound
     THEN Issue(inflight, MkCall(111, "spacy_embed_query", 0, ns.embedder, spacy_query),
                At("embed_query"))
     ELSE Raise(inflight, "NameError")
  /\ UNCHANGED <<ns, bound, db>>

Cell111_embed_query ==
  \E r \in inflight :
    /\ Same
    /\ Ret(r, 111, "spacy_embed_query")
    /\ ns' = [ns EXCEPT !.query_embedding = SpacyEmbedQuery(r.arg)]
    /\ bound' = bound \cup {"query_embedding"}
    /\ out' = [out EXCEPT ![111] = <<ns'.query_embedding>>]
    /\ Done(inflight \ {r})
    /\ UNCHANGED db

\* ------------------------------------------------------- specification
Next ==
  \/ Cell4 \/ Cell4_connect \/ Cell4_execute
  \/ Cell7 \/ Cell7_connect
  \/ Cell9 \/ Cell9_drop \/ Cell9_create \/ Cell9_insert \/ Cell9_commit
  \/ Cell12 \/ Cell12_load_onnx
  \/ Cell14 \/ Cell14_execute
  \/ Cell16 \/ Cell16_load
  \/ Cell19
  \/ Cell21 \/ Cell21_get_summary
  \/ Cell23 \/ Cell23_split_text
  \/ Cell26
  \/ Cell28 \/ Cell28_split_text \/ Cell28_embed_query
  \/ Cell31
  \/ Cell33 \/ Cell33_connect \/ Cell33_load_onnx \/ Cell33_get_summary
  \/ Cell33_split_text
  \/ Cell35 \/ Cell35_from_documents
  \/ Cell38 \/ Cell38_create_index
  \/ Cell41 \/ Cell41_search
  \/ Cell101 \/ Cell101_pip
  \/ Cell103
  \/ Cell105 \/ Cell105_init
  \/ Cell107
  \/ Cell109 \/ Cell109_embed_documents
  \/ Cell111 \/ Cell111_embed_query
  \/ Fail

Spec == Init /\ [][Next]_vars

\* ------------------------------------------------------------ properties
\* The run the kernel is in started at or above cell c: it went through c
\* before it reached a later cell.
From(c) == streak <= c

\* C1: In a run down the notebook the calls go out in pipeline order.  A load
\* is issued only once a connection is bound; a summarize, split or embed call
\* only once loader.load() has returned the docs; from_documents only once
\* the summary, split, embedding and chunk-building cells have all ended, and
\* with no other call outstanding; create_index only once from_documents has
\* returned the store; a search only once create_index has returned.
C1_PipelineOrder ==
  \A r \in inflight :
    /\ r.op = "load" =>
         /\ "connection" \in bound
         /\ From(7) => 7 \in ran
    /\ r.op \in {"get_summary", "split_text", "embed_query"} =>
         /\ "docs" \in bound
         /\ From(16) => 16 \in ran
    /\ r.op = "from_documents" =>
         /\ inflight = {r}
         /\ "chunks_with_mdata" \in bound
         /\ From(33) => 33 \in ran
         /\ From(21) => {21, 23, 28, 33} \subseteq ran
    /\ r.op = "create_index" =>
         /\ "vectorstore" \in bound
         /\ db.vtab
         /\ From(35) => 35 \in ran
    /\ r.op \in SearchOps =>
         /\ "vectorstore" \in bound
         /\ From(38) => 38 \in ran /\ db.idx

\* A run from the first cell has reached the store step.
C1_Witness ==
  \E r \in inflight :
    /\ r.op = "from_documents"
    /\ streak = OracleCells[1]
    /\ jumps = 0
    /\ Len(r.arg) > 0

\* The document a chunk was cut from, as the loader returned it.
SourceOf(d) == LoaderDoc(d.page_content[1])

\* The metadata keys the loader sets.
LoaderKeys == DOMAIN LoaderDoc(rows_to_insert[1]).metadata

\* C2 (as stated): the Documents handed to from_documents carry the page
\* content split_text returned and exactly the loader's metadata of their
\* source document, nothing added, removed or rewritten.
C2_PassThrough ==
  \A r \in inflight :
    r.op = "from_documents" =>
      \A k \in 1..Len(r.arg) :
        /\ r.arg[k].page_content \in Range(SplitText(r.arg[k].page_content[1]))
        /\ r.arg[k].metadata = SourceOf(r.arg[k]).metadata

\* C2 (amended): the Documents handed to from_documents carry the page
\* content split_text returned and a copy of the loader's metadata of their
\* source document with every loader key unchanged, to which the notebook
\* adds exactly the keys id, document_id and document_summary.
C2_MetadataExtended ==
  \A r \in inflight :
    r.op = "from_documents" =>
      \A k \in 1..Len(r.arg) :
        /\ r.arg[k].page_content \in Range(SplitText(r.arg[k].page_content[1]))
        /\ DOMAIN r.arg[k].metadata =
             LoaderKeys \cup {"id", "document_id", "document_summary"}
        /\ \A key \in LoaderKeys :
             r.arg[k].metadata[key] = SourceOf(r.arg[k]).metadata[key]

\* from_documents is handed chunks of two different documents.
C2_Witness ==
  \E r \in inflight :
    /\ r.op = "from_documents"
    /\ \E k, l \in 1..Len(r.arg) : r.arg[k].page_content[1] # r.arg[l].page_content[1]

\* What one step must do when an outstanding call raises, and what may
\* follow a cell that raised.
C3_Step ==
  /\ (status = "busy" /\ err' \notin {"none", "NameError"}) =>
       /\ status' = "error"
       /\ inflight' = {}
       /\ pc' = Idle
       /\ ns' = ns
       /\ bound' = bound
       /\ out' = out
  /\ (status = "error" /\ status' # "error") =>
       /\ jumps' = jumps + 1
       /\ ran' \subseteq {cell'}

\* C3: a failing external call is neither handled nor retried.  The step in
\* which an outstanding call raises ends the cell (no position in it is kept,
\* no call is outstanding any more, so no later statement of the cell runs
\* and the call is not issued again), leaves every name as it was (no entry
\* is appended to list_summary, list_chunks, embeddings or chunks_with_mdata)
\* and prints nothing; after it only a cell the user starts runs.
C3_NoHandling == [][C3_Step]_vars

\* The combined cell raised on the second document, after the chunk of the
\* first had been appended.
C3_Witness ==
  /\ status = "error"
  /\ err = "transient"
  /\ cell = 33
  /\ "docs" \in bound
  /\ Len(ns.docs) = Len(rows_to_insert)
  /\ Len(ns.chunks_with_mdata) = NChunks(ns.docs[1].page_content)
  /\ Len(ns.chunks_with_mdata) > 0

\* The place of a position in the program order of its cell.
Site(at) ==
  CASE at = "connect" -> 1
    [] at \in {"execute", "drop", "load_onnx"} -> 2
    [] at = "create" -> 3
    [] at = "insert" -> 4
    [] at = "commit" -> 5
    [] at = "get_summary" -> 6
    [] at = "split_text" -> 7
    [] at = "embed_query" -> 8
    [] OTHER -> 6

Rank(p) == p.i * 100 + Site(p.at) * 10 + p.j

C4_State ==
  /\ Cardinality(inflight) <= 1
  /\ inflight # {} <=> status = "busy"
  /\ inflight # {} <=> pc.at # "idle"
  /\ \A r \in inflight : r.cell = cell

C4_Step ==
  (status = "busy" /\ status' = "busy") =>
    /\ cell' = cell
    /\ Rank(pc') > Rank(pc)

\* C4: execution is single-threaded and synchronous.  At most one external
\* call is outstanding, it belongs to the running cell, and the cell waits
\* at the statement that made it; a call is issued only in the step in which
\* the one before it returns; while a cell runs no other cell runs, and its
\* position only moves forward in the program order of the cell.
C4_Synchronous == []C4_State /\ [][C4_Step]_vars

\* The inner loop of the embedding cell waits for its second embed_query of
\* the second document.
C4_Witness ==
  /\ cell = 28
  /\ pc.at = "embed_query"
  /\ pc.i = 2
  /\ pc.j = 2
  /\ Cardinality(inflight) = 1

\* The model the embedder e asks the database for has been loaded.
ModelLoaded(e) ==
  /\ e.params.provider = "database"
  /\ e.params.model = onnx_args.model_name
  /\ e.params.model \in db.models

PipelineCells == {33, 35, 38, 41}

\* C6: the combined pipeline uses the 'database' provider for summary and
\* embeddings, builds both objects without a proxy argument, and runs to its
\* end whether or not the credential cell ran: in a run that came through
\* the loading cell, no cell of the pipeline stops for a reason of the
\* notebook's own making (only a failure of the database can stop it).
C6_PipelineCompletes ==
  /\ 33 \in ran =>
       /\ ns.summary.proxy = NoArg /\ ns.summary.params.provider = "database"
       /\ ns.embedder.proxy = NoArg /\ ns.embedder.params.provider = "database"
  /\ (status = "error" /\ cell \in PipelineCells /\ From(16)) => err = "transient"

\* The 1-based position in docs of the document chunk d was cut from.  The
\* loader returns the rows of demo_tab in the order of rows_to_insert.
DocPosition(d) ==
  CHOOSE p \in 1..Len(rows_to_insert) :
    LoaderDoc(rows_to_insert[p]).page_content = d.page_content[1]

\* The search variants of the query cell: the method and whether it filters.
Variants == {<<Searches[n].op, DOMAIN Searches[n].filter # {}>> : n \in 1..Len(Searches)}

\* C7: the query cell makes plain, filtered, scored and max-marginal-relevance
\* searches, each with k = 1.  The docs are the table's rows in order; every
\* stored chunk's document_id is the decimal string of the position of its
\* source document, so two chunks have the same document_id exactly when
\* they come from the same document, and the filter {'document_id': ['1']}
\* selects exactly the chunks of the first document.
C7_FilterSelectsFirstDocument ==
  /\ "docs" \in bound =>
       \A p \in 1..Len(ns.docs) : ns.docs[p] = LoaderDoc(rows_to_insert[p])
  /\ \A r \in inflight :
       r.op \in SearchOps =>
         /\ r.arg.k = 1
         /\ r.op = Searches[pc.i].op
         /\ {<<"similarity_search", FALSE>>, <<"similarity_search", TRUE>>,
             <<"similarity_search_with_score", FALSE>>,
             <<"max_marginal_relevance_search", FALSE>>} \subseteq Variants
         /\ \A i \in 1..Len(db.store) :
              db.store[i].metadata["document_id"] = ToStr(DocPosition(db.store[i]))
         /\ \A i, j \in 1..Len(db.store) :
              (db.store[i].metadata["document_id"] = db.store[j].metadata["document_id"])
                <=> (db.store[i].page_content[1] = db.store[j].page_content[1])
         /\ DOMAIN r.arg.filter # {} =>
              /\ r.arg.filter = filter
              /\ FilterSelect(db.store, r.arg.filter)
                   = {i \in 1..Len(db.store) : DocPosition(db.store[i]) = 1}

\* The last search of the query cell is outstanding; its filter selects
\* some of the stored chunks and leaves others out.
C7_Witness ==
  \E r \in inflight :
    /\ r.op \in SearchOps
    /\ pc.i = Len(Searches)
    /\ DOMAIN r.arg.filter # {}
    /\ FilterSelect(db.store, r.arg.filter) # {}
    /\ FilterSelect(db.store, r.arg.filter) # 1..Len(db.store)

\* C8: in the spaCy notebook embed_documents(texts) yields one embedding per
\* text, in the order of the texts, and the entry printed with number p (the
\* Python index i = p - 1 plus one) is the embedding of the p-th text;
\* embed_query yields the one embedding of the one query; the texts list
\* stays the list the texts cell bound.
C8_OneEmbeddingPerText ==
  nb = "spacy" =>
    /\ "texts" \in bound => ns.texts = texts
    /\ "embeddings" \in bound =>
         /\ Len(ns.embeddings) = Len(ns.texts)
         /\ \A p \in 1..Len(ns.texts) : ns.embeddings[p] = SpacyEmbedQuery(ns.texts[p])
    /\ 109 \in ran =>
         /\ Len(out[109]) = Len(ns.texts)
         /\ \A p \in 1..Len(ns.texts) : out[109][p] = <<p, SpacyEmbedQuery(ns.texts[p])>>
    /\ 111 \in ran =>
         /\ ns.query_embedding = SpacyEmbedQuery(spacy_query)
         /\ out[111] = <<ns.query_embedding>>

\* A run of the spaCy notebook has printed the batch and the query embedding.
C8_Witness ==
  /\ nb = "spacy"
  /\ status = "ok"
  /\ cell = 111
  /\ {109, 111} \subseteq ran
  /\ Len(out[109]) = Len(texts)

\* The chunks split_text returns for the first n of the documents ds, by
\* document and then by chunk.
RECURSIVE AllChunks(_, _)
AllChunks(ds, n) ==
  IF n = 0 THEN <<>> ELSE AllChunks(ds, n - 1) \o SplitText(ds[n].page_content)

\* C9: the result lists have one entry per processed item, in processing
\* order.  Once the summary cell has ended, list_summary has one entry per
\* document and entry i is the summary of docs[i]; once the combined cell
\* has ended, chunks_with_mdata holds one Document per (document, chunk)
\* pair, by document and then by chunk, as many as split_text returned
\* chunks over all docs; once the split and the embedding cell have ended,
\* embeddings has one entry per entry of list_chunks and entry j is the
\* embedding of list_chunks[j].
C9_OneEntryPerItem ==
  nb = "oracle" =>
    /\ 21 \in ran =>
         /\ Len(ns.list_summary) = Len(ns.docs)
         /\ \A i \in 1..Len(ns.docs) :
              ns.list_summary[i] = GetSummary(ns.docs[i].page_content)
    /\ 23 \in ran => ns.list_chunks = AllChunks(ns.docs, Len(ns.docs))
    /\ 33 \in ran =>
         /\ Len(ns.chunks_with_mdata) = Len(AllChunks(ns.docs, Len(ns.docs)))
         /\ [k \in 1..Len(ns.chunks_with_mdata) |-> ns.chunks_with_mdata[k].page_content]
              = AllChunks(ns.docs, Len(ns.docs))
    /\ {23, 28} \subseteq ran =>
         /\ Len(ns.embeddings) = Len(ns.list_chunks)
         /\ \A j \in 1..Len(ns.list_chunks) :
              ns.embeddings[j] = EmbedQuery(ns.list_chunks[j])

\* A run from the first cell has ended the combined cell, with every list
\* filled from three documents.
C9_Witness ==
  /\ status = "ok"
  /\ cell = 33
  /\ {21, 23, 28, 33} \subseteq ran
  /\ Len(ns.docs) = Len(rows_to_insert)
  /\ Len(ns.list_summary) = Len(ns.docs)
  /\ Len(ns.chunks_with_mdata) > 1
  /\ Len(ns.embeddings) > 1

\* C10: the populate cell is idempotent.  Whenever it has ended, however
\* often it ran before, demo_tab exists and holds exactly the rows 1, 2, 3,
\* all committed; the table never holds more than these rows, committed or
\* not; and in a run that came through the populate cell, loader.load() is
\* issued only once the cell has ended and its rows are committed.
C10_PopulateIdempotent ==
  nb = "oracle" =>
    /\ Len(db.rows) + Len(db.pending) <= Len(rows_to_insert)
    /\ 9 \in ran =>
         /\ db.tab
         /\ db.rows = rows_to_insert
         /\ db.pending = <<>>
    /\ \A r \in inflight :
         (r.op = "load" /\ From(9)) =>
           /\ 9 \in ran
           /\ db.rows = rows_to_insert
           /\ Visible(db, r.conn) = db.rows

\* The populate cell has ended again in a later run, after an earlier run
\* had populated the table and loaded its three rows.
C10_Witness ==
  /\ status = "ok"
  /\ cell = 9
  /\ jumps > 0
  /\ "docs" \in bound
  /\ Len(ns.docs) = Len(rows_to_insert)
  /\ db.rows = rows_to_insert

\* The calls of the store, index and query cells.
StoreOps == {"from_documents", "create_index"} \cup SearchOps

\* The connection an embedder handed to a call works on (none for
\* create_index, whose receiver is the store).
EmbedderConns(r) == IF r.op = "create_index" THEN {} ELSE {r.obj.conn}

\* C11: every database-backed call is issued on an open connection.  In a
\* run that came through the combined cell, from_documents, create_index
\* and the searches are outstanding only with their connection open and
\* with their embedder's connection open.
C11_ConnectionOpen ==
  \A r \in inflight :
    (r.op \in StoreOps /\ From(33)) =>
      /\ r.conn \in db.open
      /\ EmbedderConns(r) \subseteq db.open

\* The id the combined cell gives chunk number c of the document at
\* position p of docs, whether or not split_text returns that many chunks.
ChunkId(p, c) ==
  LET text == ns.docs[p].page_content
  IN  ChunkDoc(ns.docs[p], p, c, <<text, c>>, GetSummary(text)).metadata["id"]

\* C12: while and after the combined cell runs, the chunks of
\* chunks_with_mdata have pairwise distinct ids.  The id
\* is the source document's _oid, '$', the 1-based document position, '$',
\* the 1-based chunk position; and over the loaded docs (two of which share
\* an _oid, one of which has a '$' in its _oid) there are as many ids as
\* (document position, chunk position) pairs: the mapping is injective.
C12_DistinctChunkIds ==
  (nb = "oracle" /\ cell = 33) =>
    /\ "chunks_with_mdata" \in bound =>
         LET cs == ns.chunks_with_mdata IN
           /\ \A k, l \in 1..Len(cs) :
                cs[k].metadata["id"] = cs[l].metadata["id"] => k = l
           /\ \A k \in 1..Len(cs) :
                cs[k].metadata["id"] =
                  SourceOf(cs[k]).metadata["_oid"] \o "$"
                    \o ToStr(DocPosition(cs[k])) \o "$" \o ToStr(cs[k].page_content[2])
    /\ "docs" \in bound =>
         LET at == (1..Len(ns.docs)) \X (1..(MaxChunks + 1))
         IN  Cardinality({ChunkId(x[1], x[2]) : x \in at}) = Cardinality(at)

\* The combined cell has ended with chunks of several documents, over docs
\* of which two share an _oid and one has a longer _oid that extends it.
C12_Witness ==
  /\ 33 \in ran
  /\ Len(ns.chunks_with_mdata) > 2
  /\ \E k, l \in 1..Len(ns.chunks_with_mdata) :
       DocPosition(ns.chunks_with_mdata[k]) # DocPosition(ns.chunks_with_mdata[l])
  /\ \E p, q \in 1..Len(ns.docs) :
       /\ p # q
       /\ ns.docs[p].metadata["_oid"] = ns.docs[q].metadata["_oid"]
  /\ \E p, q \in 1..Len(ns.docs) :
       ns.docs[p].metadata["_oid"] = ns.docs[q].metadata["_oid"] \o "$" \o ToStr(q)

\* The keys the inner loop of the combined cell writes.
ChunkKeys == {"id", "document_id", "document_summary"}

\* What a step inside the combined cell leaves alone: docs, with every
\* document's page_content and metadata.
C13_Step ==
  (cell = 33 /\ cell' = 33 /\ "docs" \in bound) =>
    /\ "docs" \in bound'
    /\ ns'.docs = ns.docs

\* What holds of docs and of the chunks in every state: no document's
\* metadata has one of the chunk keys, every chunk's metadata has all of
\* them, and two chunks never hold the same metadata.
C13_State ==
  nb = "oracle" =>
    /\ "docs" \in bound =>
         \A p \in 1..Len(ns.docs) : DOMAIN ns.docs[p].metadata \cap ChunkKeys = {}
    /\ "chunks_with_mdata" \in bound =>
         LET cs == ns.chunks_with_mdata IN
           /\ \A k \in 1..Len(cs) : ChunkKeys \subseteq DOMAIN cs[k].metadata
           /\ \A k, l \in 1..Len(cs) : k # l => cs[k].metadata # cs[l].metadata

\* C13: building the chunks leaves the loaded documents unchanged.  No step
\* of the combined cell changes docs; the keys id, document_id and
\* document_summary exist only in the chunks' metadata; and no two chunks
\* share one metadata mapping.
C13_DocsUnchanged == []C13_State /\ [][C13_Step]_vars

\* The combined cell has ended after building two chunks of one document
\* and a chunk of another, with docs as the loader returned them.
C13_Witness ==
  /\ 33 \in ran
  /\ cell = 33
  /\ status = "ok"
  /\ \A p \in 1..Len(ns.docs) : ns.docs[p] = LoaderDoc(rows_to_insert[p])
  /\ \E k, l, m \in 1..Len(ns.chunks_with_mdata) :
       /\ k # l
       /\ ns.chunks_with_mdata[k].page_content[1] = ns.chunks_with_mdata[l].page_content[1]
       /\ ns.chunks_with_mdata[m].page_content[1] # ns.chunks_with_mdata[k].page_content[1]

====
